---- MODULE Spec2Model ----
(***************************************************************************)
(* Chord transposition engine of app.py: CHORD_REGEX matching,             *)
(* normalize_chord, transpose_chord, transpose_line,                       *)
(* draw_line_with_bold_chords and format_song.                             *)
(*                                                                         *)
(* A Python str is a sequence of one-character strings.  re's \b is the    *)
(* boundary between a \w character (letter, digit, underscore) and a       *)
(* non-\w character or an end of the string.                               *)
(***************************************************************************)
EXTENDS Integers, Sequences, FiniteSets, TLC

VARIABLES pc, steps, chord, result, raised, line, out, subSpans, back, drawn, text, output

vars == <<pc, steps, chord, result, raised, line, out, subSpans, back, drawn, text, output>>

(***************************************************************************)
(* Bounds of the model.                                                    *)
(***************************************************************************)
MaxStep == 13
MaxPieces == 3
MaxRaw == 3
MaxTextPieces == 4
MaxSongStep == 1

(***************************************************************************)
(* Program constants.                                                      *)
(***************************************************************************)
LEFT_MARGIN == 50
CHAR_WIDTH_TENTHS == 72

CHORD_ORDER ==
    << <<"C">>, <<"C", "#">>, <<"D">>, <<"D", "#">>, <<"E">>, <<"F">>,
       <<"F", "#">>, <<"G">>, <<"G", "#">>, <<"A">>, <<"A", "#">>, <<"B">> >>

ENHARMONIC_KEYS ==
    { <<"D", "b">>, <<"E", "b">>, <<"G", "b">>, <<"A", "b">>, <<"B", "b">> }

ENHARMONIC(root) ==
    CASE root = <<"D", "b">> -> <<"C", "#">>
      [] root = <<"E", "b">> -> <<"D", "#">>
      [] root = <<"G", "b">> -> <<"F", "#">>
      [] root = <<"A", "b">> -> <<"G", "#">>
      [] root = <<"B", "b">> -> <<"A", "#">>

\* The alternatives of the quality group of CHORD_REGEX, in the order re tries them.
QUALITIES ==
    << <<"m">>, <<"m", "a", "j", "7">>, <<"s", "u", "s", "4">>,
       <<"s", "u", "s", "2">>, <<"d", "i", "m">>, <<"a", "u", "g">> >>

(***************************************************************************)
(* Character classes of the re module.                                     *)
(***************************************************************************)
RootLetters == {"A", "B", "C", "D", "E", "F", "G"}

Accidentals == {"#", "b"}

Digits == {"0", "1", "2", "3", "4", "5", "6", "7", "8", "9"}

Letters ==
    {"A", "B", "C", "D", "E", "F", "G", "H", "I", "J", "K", "L", "M",
     "N", "O", "P", "Q", "R", "S", "T", "U", "V", "W", "X", "Y", "Z",
     "a", "b", "c", "d", "e", "f", "g", "h", "i", "j", "k", "l", "m",
     "n", "o", "p", "q", "r", "s", "t", "u", "v", "w", "x", "y", "z"}

IsWord(c) == c \in Letters \/ c \in Digits \/ c = "_"

\* Is the character at 1-based position p of s a \w character (FALSE outside s).
WordAt(s, p) == p >= 1 /\ p <= Len(s) /\ IsWord(s[p])

\* \b at the gap just before position p of s.
Boundary(s, p) == WordAt(s, p - 1) # WordAt(s, p)

\* s[from .. to-1] in 1-based positions: Python's s[from-1:to-1].
Slice(s, from, to) == IF to <= from THEN <<>> ELSE SubSeq(s, from, to - 1)

\* ''.join(ps)
RECURSIVE Flatten(_)
Flatten(ps) == IF ps = <<>> THEN <<>> ELSE Head(ps) \o Flatten(Tail(ps))

StartsWithAt(s, p, w) ==
    /\ p + Len(w) - 1 <= Len(s)
    /\ \A k \in 1..Len(w) : s[p + k - 1] = w[k]

(***************************************************************************)
(* re.match(r'[A-G](#|b)?', chord): length of the matched root, 0 for no   *)
(* match.                                                                  *)
(***************************************************************************)
RootMatchLen(s) ==
    IF Len(s) >= 1 /\ s[1] \in RootLetters
    THEN IF Len(s) >= 2 /\ s[2] \in Accidentals THEN 2 ELSE 1
    ELSE 0

\* normalize_chord without the ENHARMONIC lookup.
normalize_chord_nolookup(s) == s

normalize_chord(s) ==
    IF RootMatchLen(s) = 0
    THEN s
    ELSE LET root == Slice(s, 1, RootMatchLen(s) + 1)
             rest == Slice(s, RootMatchLen(s) + 1, Len(s) + 1)
         IN (IF root \in ENHARMONIC_KEYS THEN ENHARMONIC(root) ELSE root) \o rest

InChordOrder(root) == \E k \in 1..Len(CHORD_ORDER) : CHORD_ORDER[k] = root

\* list.index: the 0-based position, or -1 where Python raises ValueError.
ChordIndex(root) ==
    IF InChordOrder(root)
    THEN (CHOOSE k \in 1..Len(CHORD_ORDER) : CHORD_ORDER[k] = root) - 1
    ELSE -1

\* The value that stands for an exception leaving transpose_chord.
ValueError == <<"ValueError">>

\* transpose_chord taking the rest after a two-character root whatever the root is.
transpose_chord_rest2(s, n) ==
    IF RootMatchLen(s) = 0
    THEN s
    ELSE LET root == normalize_chord(Slice(s, 1, RootMatchLen(s) + 1))
             rest == Slice(s, 3, Len(s) + 1)
         IN IF ~InChordOrder(root)
            THEN s
            ELSE CHORD_ORDER[((ChordIndex(root) + n) % Len(CHORD_ORDER)) + 1] \o rest

\* transpose_chord without the test that the root is in CHORD_ORDER.
transpose_chord_nocheck(s, n) ==
    IF RootMatchLen(s) = 0
    THEN s
    ELSE LET root == normalize_chord(Slice(s, 1, RootMatchLen(s) + 1))
             rest == Slice(s, RootMatchLen(s) + 1, Len(s) + 1)
             idx == ChordIndex(root)
         IN IF idx < 0
            THEN ValueError
            ELSE CHORD_ORDER[((idx + n) % Len(CHORD_ORDER)) + 1] \o rest

transpose_chord(s, n) ==
    IF RootMatchLen(s) = 0
    THEN s
    ELSE LET root == normalize_chord(Slice(s, 1, RootMatchLen(s) + 1))
             rest == Slice(s, RootMatchLen(s) + 1, Len(s) + 1)
         IN IF ~InChordOrder(root)
            THEN s
            ELSE LET idx == ChordIndex(root)
                 IN IF idx < 0
                    THEN ValueError
                    ELSE CHORD_ORDER[((idx + n) % Len(CHORD_ORDER)) + 1] \o rest

(***************************************************************************)
(* CHORD_REGEX: a word boundary, a root letter A-G, an optional            *)
(* accidental, an optional quality, any digits and a word boundary,        *)
(* matched at a fixed start position, with re's backtracking order:        *)
(* accidental taken before skipped, quality alternatives left to right     *)
(* before the empty one, digits longest first.  Each operator returns the  *)
(* position after the match, 0 for failure.                                *)
(***************************************************************************)
RECURSIVE DigitRun(_, _)
DigitRun(s, p) == IF p <= Len(s) /\ s[p] \in Digits THEN 1 + DigitRun(s, p + 1) ELSE 0

\* The digits and the closing boundary from position p: the longest run of digits that ends at a boundary.
DigitsThenBoundary(s, p) ==
    LET ends == {e \in p..(p + DigitRun(s, p)) : Boundary(s, e)}
    IN IF ends = {} THEN 0 ELSE CHOOSE e \in ends : \A f \in ends : f <= e

\* The optional quality, the digits and the closing boundary from position p.
QualityThenRest(s, p) ==
    LET ok == {k \in 1..Len(QUALITIES) :
                   /\ StartsWithAt(s, p, QUALITIES[k])
                   /\ DigitsThenBoundary(s, p + Len(QUALITIES[k])) # 0}
    IN IF ok # {}
       THEN LET k == CHOOSE k \in ok : \A j \in ok : k <= j
            IN DigitsThenBoundary(s, p + Len(QUALITIES[k]))
       ELSE DigitsThenBoundary(s, p)

\* The whole pattern from start position i.
MatchEnd(s, i) ==
    IF ~(i <= Len(s) /\ s[i] \in RootLetters /\ Boundary(s, i))
    THEN 0
    ELSE IF i + 1 <= Len(s) /\ s[i + 1] \in Accidentals /\ QualityThenRest(s, i + 2) # 0
         THEN QualityThenRest(s, i + 2)
         ELSE QualityThenRest(s, i + 1)

\* re.finditer(CHORD_REGEX, s): the spans <<start, end>> (end exclusive) of the
\* leftmost non-overlapping matches, scanning from position p.
RECURSIVE MatchesFrom(_, _)
MatchesFrom(s, p) ==
    IF p > Len(s)
    THEN <<>>
    ELSE IF MatchEnd(s, p) # 0
         THEN << <<p, MatchEnd(s, p)>> >> \o MatchesFrom(s, MatchEnd(s, p))
         ELSE MatchesFrom(s, p + 1)

Matches(s) == MatchesFrom(s, 1)

\* re.search(CHORD_REGEX, s) is not None.
HasMatch(s) == Matches(s) # <<>>

\* re.sub(CHORD_REGEX, repl, s) with repl = transpose_chord(match.group(0), n).
RECURSIVE SubFrom(_, _, _)
SubFrom(s, p, n) ==
    IF p > Len(s)
    THEN <<>>
    ELSE IF MatchEnd(s, p) # 0
         THEN transpose_chord(Slice(s, p, MatchEnd(s, p)), n) \o SubFrom(s, MatchEnd(s, p), n)
         ELSE <<s[p]>> \o SubFrom(s, p + 1, n)

\* transpose_line keeping the transposed matches only, not the text around them.
transpose_line_tokens(s, n) ==
    Flatten([k \in 1..Len(Matches(s)) |-> transpose_chord(Slice(s, Matches(s)[k][1], Matches(s)[k][2]), n)])

transpose_line(s, n) == SubFrom(s, 1, n)

(***************************************************************************)
(* draw_line_with_bold_chords: the drawString calls it makes on the        *)
(* canvas, each with the font set just before it.  x is in tenths of a     *)
(* point (CHAR_WIDTH is 7.2).                                              *)
(***************************************************************************)
RECURSIVE DrawFrom(_, _, _, _, _)
DrawFrom(s, ms, k, last_idx, cursor_x) ==
    IF k > Len(ms)
    THEN << [font |-> "Courier", x |-> cursor_x, text |-> Slice(s, last_idx, Len(s) + 1)] >>
    ELSE LET normal_text == Slice(s, last_idx, ms[k][1])
             chord_text == Slice(s, ms[k][1], ms[k][2])
             chord_x == cursor_x + Len(normal_text) * CHAR_WIDTH_TENTHS
         IN << [font |-> "Courier", x |-> cursor_x, text |-> normal_text],
               [font |-> "Courier-Bold", x |-> chord_x, text |-> chord_text] >>
            \o DrawFrom(s, ms, k + 1, ms[k][2], chord_x + Len(chord_text) * CHAR_WIDTH_TENTHS)

draw_line_with_bold_chords(x, s) == DrawFrom(s, Matches(s), 1, 1, x * 10)

(***************************************************************************)
(* format_song.                                                            *)
(***************************************************************************)
\* The line boundaries of str.splitlines that a TLA+ string can spell.
LineBreaks == {"\n", "\r", "\f"}

\* text.splitlines(): a break ends the current line, "\r\n" is one break, and
\* no empty line follows the last break.
RECURSIVE SplitFrom(_, _, _)
SplitFrom(s, p, cur) ==
    IF p > Len(s)
    THEN IF cur = <<>> THEN <<>> ELSE <<cur>>
    ELSE IF s[p] \in LineBreaks
         THEN <<cur>> \o SplitFrom(s, IF s[p] = "\r" /\ p < Len(s) /\ s[p + 1] = "\n"
                                      THEN p + 2 ELSE p + 1, <<>>)
         ELSE SplitFrom(s, p + 1, Append(cur, s[p]))

splitlines(s) == SplitFrom(s, 1, <<>>)

\* No replacement of tabs.
ExpandTabs_none(s) == s

\* line.replace('\t', '    ')
RECURSIVE ExpandTabs(_)
ExpandTabs(s) ==
    IF s = <<>>
    THEN <<>>
    ELSE (IF Head(s) = "\t" THEN <<" ", " ", " ", " ">> ELSE <<Head(s)>>) \o ExpandTabs(Tail(s))

format_line(l, n) == IF HasMatch(ExpandTabs(l)) THEN transpose_line(ExpandTabs(l), n) ELSE ExpandTabs(l)

format_song(t, n) == [i \in 1..Len(splitlines(t)) |-> format_line(splitlines(t)[i], n)]

(***************************************************************************)
(* Inputs.                                                                 *)
(***************************************************************************)
SeqsUpTo(S, n) == UNION {[1..k -> S] : k \in 0..n}

Steps == (-MaxStep)..MaxStep

\* The shifts of KEY_SHIFT (Lower, Same, Higher) and their translates by octaves.
LineSteps == {n \in Steps : n % 12 \in {0, 1, 11}}

SongSteps == (-MaxSongStep)..MaxSongStep

RootSpellings ==
    {<<l>> : l \in RootLetters} \cup {<<l, a>> : l \in RootLetters, a \in Accidentals}

Extensions == { <<>>, <<"7">>, <<"1", "1">> }

Suffixes ==
    {q \o e : q \in {<<>>} \cup {QUALITIES[k] : k \in 1..Len(QUALITIES)}, e \in Extensions}

GrammarTokens == {r \o x : r \in RootSpellings, x \in Suffixes}

RawChars == {"C", "E", "#", "b", "m", "7", "x"}

ChordInputs == GrammarTokens \cup SeqsUpTo(RawChars, MaxRaw)

LinePieces ==
    { <<"C">>, <<"B">>, <<"#">>, <<"b">>, <<"m">>, <<"7">>, <<" ">>, <<"t">>, <<"_">>,
      <<"m", "a", "j", "7">> }

ExampleLines ==
    { <<"C", " ", "G", " ", "A", "m", " ", "F">>,
      <<"C", "#", " ", "G", "#">>,
      <<"B", "b", "7", " ", "E", "b">>,
      <<" ", " ", "C", "m", "a", "j", "7", " ", " ", " ", "D", "s", "u", "s", "4">>,
      <<"C", "a", "t", " ", "s", "a", "t">>,
      <<"A", "m", "a", "z", "i", "n", "g">>,
      <<"F", "#", "m", "7", " ", "A">>,
      <<"C", "#", "m", "7", "b", "5">> }

LineInputs == {Flatten(ps) : ps \in SeqsUpTo(LinePieces, MaxPieces)} \cup ExampleLines

TextPieces == { <<"G">>, <<"b">>, <<"#">>, <<"x">>, <<"\t">>, <<"\n">>, <<"\r">> }

ExampleTexts ==
    { <<"\t", "G", "\t", "D">>,
      <<"C", " ", "G", "\n", "A", "m", "a", "z", "i", "n", "g", "\n", "\t", "B", "b", "7">> }

TextInputs == {Flatten(ps) : ps \in SeqsUpTo(TextPieces, MaxTextPieces)} \cup ExampleTexts

(***************************************************************************)
(* State machines: one call sequence per function under study.             *)
(***************************************************************************)
\* transpose_chord(chord, steps)
InitChord ==
    /\ pc = "start"
    /\ steps \in Steps
    /\ chord \in ChordInputs
    /\ result = <<>> /\ raised = FALSE
    /\ line = <<>> /\ out = <<>> /\ subSpans = <<>> /\ back = <<>> /\ drawn = <<>>
    /\ text = <<>> /\ output = <<>>

TransposeChordCall ==
    /\ pc = "start"
    /\ raised' = (transpose_chord(chord, steps) = ValueError)
    /\ result' = IF transpose_chord(chord, steps) = ValueError THEN <<>> ELSE transpose_chord(chord, steps)
    /\ pc' = "done"
    /\ UNCHANGED <<steps, chord, line, out, subSpans, back, drawn, text, output>>

NextChord == TransposeChordCall

SpecChord == InitChord /\ [][NextChord]_vars

\* transpose_line(line, steps), then the inverse shift or the PDF drawing of the result
InitLine ==
    /\ pc = "start"
    /\ steps \in LineSteps
    /\ line \in LineInputs
    /\ out = <<>> /\ subSpans = <<>> /\ back = <<>> /\ drawn = <<>>
    /\ chord = <<>> /\ result = <<>> /\ raised = FALSE
    /\ text = <<>> /\ output = <<>>

TransposeLineCall ==
    /\ pc = "start"
    /\ out' = transpose_line(line, steps)
    /\ subSpans' = Matches(line)
    /\ pc' = "transposed"
    /\ UNCHANGED <<steps, chord, result, raised, line, back, drawn, text, output>>

TransposeBackCall ==
    /\ pc = "transposed"
    /\ back' = transpose_line(out, -steps)
    /\ pc' = "back"
    /\ UNCHANGED <<steps, chord, result, raised, line, out, subSpans, drawn, text, output>>

DrawCall ==
    /\ pc = "transposed"
    /\ drawn' = draw_line_with_bold_chords(LEFT_MARGIN, out)
    /\ pc' = "drawn"
    /\ UNCHANGED <<steps, chord, result, raised, line, out, subSpans, back, text, output>>

NextLine == TransposeLineCall \/ TransposeBackCall \/ DrawCall

SpecLine == InitLine /\ [][NextLine]_vars

\* format_song(text, steps)
InitSong ==
    /\ pc = "start"
    /\ steps \in SongSteps
    /\ text \in TextInputs
    /\ output = <<>>
    /\ chord = <<>> /\ result = <<>> /\ raised = FALSE
    /\ line = <<>> /\ out = <<>> /\ subSpans = <<>> /\ back = <<>> /\ drawn = <<>>

FormatSongCall ==
    /\ pc = "start"
    /\ output' = format_song(text, steps)
    /\ pc' = "formatted"
    /\ UNCHANGED <<steps, chord, result, raised, line, out, subSpans, back, drawn, text>>

NextSong == FormatSongCall

SpecSong == InitSong /\ [][NextSong]_vars

(***************************************************************************)
(* Properties of transpose_chord, under SpecChord.                         *)
(***************************************************************************)
\* Semitones above C of a root spelling: the letter's pitch, one more for a
\* sharp, one less for a flat.
LetterPitch(l) ==
    CASE l = "C" -> 0 [] l = "D" -> 2 [] l = "E" -> 4 [] l = "F" -> 5
      [] l = "G" -> 7 [] l = "A" -> 9 [] l = "B" -> 11

Pitch(r) ==
    LetterPitch(r[1]) + (IF Len(r) = 1 THEN 0 ELSE IF r[2] = "#" THEN 1 ELSE -1)

CanonicalNames == {CHORD_ORDER[k] : k \in 1..Len(CHORD_ORDER)}

\* The 12 canonical names and the 5 flat spellings.
ClaimRoots == CanonicalNames \cup ENHARMONIC_KEYS

\* The residue of a in 0..m-1.
NonNegMod(a, m) ==
    CHOOSE k \in 0..(m - 1) : \E q \in (-(MaxStep + m))..(MaxStep + m) : a = q * m + k

\* C4: for each of the 12 canonical roots and the 5 flat spellings and every
\* steps, transpose_chord returns the canonical name at the non-negative residue
\* of (index of the normalized root + steps) modulo 12: always a natural or a
\* sharp name, never a flat; transpose_chord("Db", 1) is "D".
C4_ShiftWraparound ==
    (pc = "done" /\ chord \in ClaimRoots) =>
        /\ ~raised
        /\ result = CHORD_ORDER[NonNegMod(Pitch(chord) + steps, 12) + 1]
        /\ result \in CanonicalNames
        /\ \A k \in 1..Len(result) : result[k] # "b"
        /\ (chord = <<"D", "b">> /\ steps = 1) => result = <<"D">>

\* A flat root shifted below C: Db - 2 wraps to B.
C4_Witness ==
    pc = "done" /\ chord = <<"D", "b">> /\ steps = -2 /\ result = <<"B">>

\* The last n characters of s.
LastN(s, n) == Slice(s, Len(s) - n + 1, Len(s) + 1)

\* C5: for every token root+rest (root a letter A-G with an optional # or b,
\* rest a quality/extension suffix) and every steps, the result of
\* transpose_chord ends with exactly rest and what precedes rest is a root.
C5_RootOnlyMutation ==
    pc = "done" =>
        \A r \in RootSpellings : \A x \in Suffixes :
            chord = r \o x =>
                /\ ~raised
                /\ Len(result) >= Len(x)
                /\ LastN(result, Len(x)) = x
                /\ Slice(result, 1, Len(result) - Len(x) + 1) \in RootSpellings

\* Bbmaj7 shifted by 3 is C#maj7.
C5_Witness ==
    /\ pc = "done"
    /\ chord = <<"B", "b", "m", "a", "j", "7">>
    /\ steps = 3
    /\ result = <<"C", "#", "m", "a", "j", "7">>

\* The root spellings that normalize to a name outside CHORD_ORDER.
OutOfTableRoots == { <<"C", "b">>, <<"F", "b">>, <<"E", "#">>, <<"B", "#">> }

NoRootPrefix(s) == s = <<>> \/ s[1] \notin RootLetters

OutOfTableRoot(s) == Len(s) >= 2 /\ <<s[1], s[2]>> \in OutOfTableRoots

\* C6: transpose_chord never raises; a string with no root prefix, or whose
\* root is Cb, Fb, E# or B# (with or without a suffix), is returned unchanged
\* for every steps.
C6_FailSoft ==
    pc = "done" =>
        /\ ~raised
        /\ (NoRootPrefix(chord) \/ OutOfTableRoot(chord)) => result = chord

\* E#m is returned as it is.
C6_Witness ==
    pc = "done" /\ chord = <<"E", "#", "m">> /\ steps = 1 /\ ~raised /\ result = chord

(***************************************************************************)
(* Properties of transpose_line and of the drawing, under SpecLine.        *)
(***************************************************************************)
\* C1: transposing a line by steps and the result by -steps gives the line back.
C1_RoundTrip == pc = "back" => back = line

\* C2: a shift by a multiple of 12 returns the line character for character.
C2_NullShift == (pc = "transposed" /\ steps % 12 = 0) => out = line

\* w is root quality extension: a letter A-G, an optional # or b, an optional
\* quality and digits.
GrammarString(w) ==
    /\ w # <<>>
    /\ w[1] \in RootLetters
    /\ \E rl \in 1..2 :
           /\ rl = 2 => (Len(w) >= 2 /\ w[2] \in Accidentals)
           /\ \E q \in {<<>>} \cup {QUALITIES[k] : k \in 1..Len(QUALITIES)} :
                  /\ StartsWithAt(w, rl + 1, q)
                  /\ \A k \in (rl + Len(q) + 1)..Len(w) : w[k] \in Digits

\* The end of the longest substring from position i that has the form of a
\* token and is delimited on both sides by an end of the line or by a character
\* that is no letter, digit or underscore (the underscore counted with the
\* alphanumerics, as C7 counts it); 0 if there is none.
DelimitedTokenEnd(s, i) ==
    LET ends == {e \in (i + 1)..(Len(s) + 1) :
                     /\ GrammarString(Slice(s, i, e))
                     /\ ~WordAt(s, i - 1)
                     /\ ~WordAt(s, e)}
    IN IF ends = {} THEN 0 ELSE CHOOSE e \in ends : \A f \in ends : f <= e

\* The line with each delimited token replaced as a whole and all else copied.
RECURSIVE WholeTokenLine(_, _, _)
WholeTokenLine(s, p, n) ==
    IF p > Len(s)
    THEN <<>>
    ELSE IF DelimitedTokenEnd(s, p) # 0
         THEN transpose_chord(Slice(s, p, DelimitedTokenEnd(s, p)), n)
                  \o WholeTokenLine(s, DelimitedTokenEnd(s, p), n)
         ELSE <<s[p]>> \o WholeTokenLine(s, p + 1, n)

\* C3: each maximal delimited token, those ending in the accidental included,
\* is replaced as a whole by transpose_chord of it and every other character is
\* copied; "C G Am F" + 1 is "C# G# A#m F#" and "C# G#" + 1 is "D A".
C3_WholeToken ==
    pc = "transposed" =>
        /\ out = WholeTokenLine(line, 1, steps)
        /\ (line = <<"C", " ", "G", " ", "A", "m", " ", "F">> /\ steps = 1)
               => out = <<"C", "#", " ", "G", "#", " ", "A", "#", "m", " ", "F", "#">>
        /\ (line = <<"C", "#", " ", "G", "#">> /\ steps = 1) => out = <<"D", " ", "A">>

\* C7: every substring that transpose_line rewrites has the form of a token
\* and is neither preceded nor followed by a letter, a digit or an underscore.
C7_WordBoundary ==
    pc = "transposed" =>
        \A k \in 1..Len(subSpans) :
            transpose_chord(Slice(line, subSpans[k][1], subSpans[k][2]), steps)
                    # Slice(line, subSpans[k][1], subSpans[k][2])
                => /\ GrammarString(Slice(line, subSpans[k][1], subSpans[k][2]))
                   /\ ~WordAt(line, subSpans[k][1] - 1)
                   /\ ~WordAt(line, subSpans[k][2])

\* The spans of the result of transpose_line(s, n) that hold the replacements
\* written for the matches ms[k..], where shift is the growth of the line so far.
RECURSIVE WrittenFrom(_, _, _, _, _)
WrittenFrom(s, ms, k, n, shift) ==
    IF k > Len(ms)
    THEN <<>>
    ELSE LET new == transpose_chord(Slice(s, ms[k][1], ms[k][2]), n)
             grow == Len(new) - (ms[k][2] - ms[k][1])
         IN << <<ms[k][1] + shift, ms[k][2] + shift + grow>> >>
            \o WrittenFrom(s, ms, k + 1, n, shift + grow)

WrittenSpans(s, n) == WrittenFrom(s, Matches(s), 1, n, 0)

\* The spans of the drawn line that are drawn in bold.
RECURSIVE BoldFrom(_, _, _)
BoldFrom(ops, k, col) ==
    IF k > Len(ops)
    THEN <<>>
    ELSE (IF ops[k].font = "Courier-Bold"
          THEN << <<col, col + Len(ops[k].text)>> >>
          ELSE <<>>)
         \o BoldFrom(ops, k + 1, col + Len(ops[k].text))

BoldSpans(ops) == BoldFrom(ops, 1, 1)

DrawnText(ops) == Flatten([k \in 1..Len(ops) |-> ops[k].text])

\* C10: the spans drawn in bold are, in number, order and extent, the spans of
\* the replacement tokens that transpose_line wrote, and the drawn segments in
\* order make up the transposed line.
C10_RescanConsistency ==
    pc = "drawn" =>
        /\ BoldSpans(drawn) = WrittenSpans(line, steps)
        /\ DrawnText(drawn) = out

(***************************************************************************)
(* Properties of format_song, under SpecSong.                              *)
(***************************************************************************)
\* The loop of format_song without the re.search test.
UnguardedFormat(t, n) ==
    [i \in 1..Len(splitlines(t)) |-> transpose_line(ExpandTabs(splitlines(t)[i]), n)]

\* C8: transpose_line returns a line without a match unchanged, so format_song
\* gives what its loop gives without the re.search test.
C8_NonChordPreservation ==
    pc = "formatted" =>
        /\ \A i \in 1..Len(splitlines(text)) :
               /\ ~HasMatch(splitlines(text)[i])
                      => transpose_line(splitlines(text)[i], steps) = splitlines(text)[i]
               /\ ~HasMatch(ExpandTabs(splitlines(text)[i]))
                      => transpose_line(ExpandTabs(splitlines(text)[i]), steps)
                             = ExpandTabs(splitlines(text)[i])
        /\ output = UnguardedFormat(text, steps)

\* A lyric line that is kept and a chord line that is transposed.
C8_Witness ==
    /\ pc = "formatted"
    /\ text = <<"x", "\t", "\n", "G">>
    /\ steps = 1
    /\ output = << <<"x", " ", " ", " ", " ">>, <<"G", "#">> >>

\* Number of lines of a text: one per line break ("\r\n" being one break) and
\* one for what follows the last break, if anything does.
RECURSIVE BreakCount(_, _)
BreakCount(t, p) ==
    IF p > Len(t)
    THEN 0
    ELSE IF t[p] = "\r" /\ p < Len(t) /\ t[p + 1] = "\n"
         THEN 1 + BreakCount(t, p + 2)
         ELSE (IF t[p] \in LineBreaks THEN 1 ELSE 0) + BreakCount(t, p + 1)

LineCount(t) ==
    BreakCount(t, 1) + (IF t # <<>> /\ t[Len(t)] \notin LineBreaks THEN 1 ELSE 0)

FourSpaces(l) == Flatten([k \in 1..Len(l) |-> IF l[k] = "\t" THEN <<" ", " ", " ", " ">> ELSE <<l[k]>>])

\* C9: format_song returns one line per line of the text, in order, each the
\* transpose_line of that line with every tab replaced by four spaces; no
\* output line has a tab, a token next to a tab is transposed, and the empty
\* text gives no line.
C9_LineStructure ==
    pc = "formatted" =>
        /\ Len(output) = LineCount(text)
        /\ \A i \in 1..Len(output) :
               /\ output[i] = transpose_line(FourSpaces(splitlines(text)[i]), steps)
               /\ \A k \in 1..Len(output[i]) : output[i][k] # "\t"
        /\ text = <<>> => output = <<>>
        /\ (text = <<"\t", "G", "\t", "D">> /\ steps = 1)
               => output = << <<" ", " ", " ", " ", "G", "#", " ", " ", " ", " ", "D", "#">> >>

\* "\tG\tD" raised by one semitone.
C9_Witness ==
    /\ pc = "formatted"
    /\ text = <<"\t", "G", "\t", "D">>
    /\ steps = 1
    /\ output = << <<" ", " ", " ", " ", "G", "#", " ", " ", " ", " ", "D", "#">> >>

====
